---------------------------- MODULE Spec2Model ----------------------------
(***************************************************************************)
(* Model of the emotion-vote server (src/unnamed/part_000): the two SQLite *)
(* tables user_emotions and playlist_history, and the five HTTP handlers   *)
(* that read and write them.  better-sqlite3 is synchronous and Node runs  *)
(* one handler to completion before the next, so every handler is one      *)
(* action.                                                                 *)
(*                                                                         *)
(* Tables are sequences of rows in rowid order.  Timestamps are whole      *)
(* seconds (CURRENT_TIMESTAMP and datetime('now') have one-second          *)
(* resolution and both format as 'YYYY-MM-DD HH:MM:SS', so the text        *)
(* comparison of the code is the comparison of these integers).            *)
(*                                                                         *)
(* SQL leaves two orders open, and the model picks neither: the order of   *)
(* the groups of a GROUP BY, and the order of rows that tie on the         *)
(* ORDER BY key.  Both are nondeterministic choices of the handler.        *)
(***************************************************************************)
EXTENDS Integers, Sequences, FiniteSets, TLC

VARIABLES
    user_emotions,      \* table user_emotions: rows [user_id, emotion, timestamp]
    playlist_history,   \* table playlist_history: rows [system_type, emotion, timestamp]
    now,                \* the wall clock, in seconds
    res                 \* the last request handled: its route, the clock when it
                        \* started, its response and the rows its queries returned

vars == <<user_emotions, playlist_history, now, res>>

---------------------------------------------------------------------------
(* Program constants *)

EMOTIONS == <<"Happy", "Calm", "Focused", "Energetic", "Melancholic">>

\* datetime('now', '-30 minutes'), in seconds
WINDOW == 1800

\* ORDER BY timestamp DESC LIMIT 20
HISTORY_LIMIT == 20

\* const distance = lastIndex === -1 ? 100 : lastIndex
NEVER_PLAYED == 100

\* let maxScore = -1
INITIAL_MAX_SCORE == -1

\* SELECT * FROM playlist_history ORDER BY timestamp DESC LIMIT 100
STATS_LIMIT == 100

---------------------------------------------------------------------------
(* Bounds of the model *)

\* seconds explored past the instant at which a vote cast at 0 leaves the window
MaxLate == 1

\* selection requests that append to playlist_history before a reset
MaxPlays == 1

\* request bodies explored: user ids and emotions (one outside EMOTIONS)
UserIds == {"u1", "u2"}

EmotionInputs == {"Happy", "Calm", "Angry"}

\* instants at which requests arrive
TimePoints == {0, 1} \cup (WINDOW .. (WINDOW + MaxLate))

---------------------------------------------------------------------------
(* Helpers *)

Range(s) == {s[i] : i \in 1 .. Len(s)}

\* a validation that lets every emotion through
Includes_Any(s, x) == TRUE

\* Array.prototype.includes
Includes(s, x) == x \in Range(s)

\* Array.prototype.slice(0, n) / LIMIT n
Take(s, n) == SubSeq(s, 1, IF Len(s) < n THEN Len(s) ELSE n)

\* every enumeration of a finite set as a sequence
RECURSIVE SeqsOf(_)
SeqsOf(S) ==
    IF S = {} THEN {<<>>}
    ELSE UNION {{<<x>> \o s : s \in SeqsOf(S \ {x})} : x \in S}

\* Array.prototype.indexOf: zero-based index of the first occurrence, or -1
IndexOf(s, x) ==
    IF \E i \in 1 .. Len(s) : s[i] = x
    THEN (CHOOSE i \in 1 .. Len(s) : s[i] = x /\ \A j \in 1 .. (i - 1) : s[j] # x) - 1
    ELSE -1

---------------------------------------------------------------------------
(* The queries *)

\* the window edge counted in: timestamp >= datetime('now', '-30 minutes')
IsActive_Closed(row, t) == row.timestamp >= t - WINDOW

\* the query without its WHERE clause
IsActive_NoWindow(row, t) == TRUE

\* WHERE timestamp > datetime('now', '-30 minutes')
IsActive(row, t) == row.timestamp > t - WINDOW

\* SELECT emotion, COUNT(*) as count FROM user_emotions WHERE ... GROUP BY emotion
\* as the set of its result rows
Summary(ue, t) ==
    LET active == {i \in 1 .. Len(ue) : IsActive(ue[i], t)}
    IN  {[emotion |-> e,
          count   |-> Cardinality({i \in active : ue[i].emotion = e})] :
            e \in {ue[i].emotion : i \in active}}

\* the same query as what .all() may return: the groups in any order
SummaryRows(ue, t) == SeqsOf(Summary(ue, t))

\* ORDER BY timestamp DESC over the rows with indices I: every order with
\* non-increasing timestamps (rows of one timestamp in any order)
RECURSIVE DescOrders(_, _)
DescOrders(rows, I) ==
    IF I = {} THEN {<<>>}
    ELSE LET m == CHOOSE i \in I : \A j \in I : rows[j].timestamp <= rows[i].timestamp
             G == {i \in I : rows[i].timestamp = rows[m].timestamp}
         IN  {p \o q : p \in SeqsOf(G), q \in DescOrders(rows, I \ G)}

OrderByTimestampDesc(rows) ==
    {[k \in 1 .. Len(p) |-> rows[p[k]]] : p \in DescOrders(rows, 1 .. Len(rows))}

\* SELECT emotion FROM playlist_history WHERE system_type = 'fairness'
\* ORDER BY timestamp DESC LIMIT 20, then .map(h => h.emotion)
HistoryRows(ph) ==
    LET fair == SelectSeq(ph, LAMBDA r : r.system_type = "fairness")
    IN  {Take([k \in 1 .. Len(s) |-> s[k].emotion], HISTORY_LIMIT) :
            s \in OrderByTimestampDesc(fair)}

---------------------------------------------------------------------------
(* The two strategies of GET /api/playlist/next *)

\* a comparison turned round: the smaller group is kept
Keep_Smaller(prev, current) == IF prev.count < current.count THEN prev ELSE current

\* a comparison that keeps the earlier group on equal counts
Keep_FirstOnTie(prev, current) == IF prev.count >= current.count THEN prev ELSE current

\* (prev, current) => (prev.count > current.count) ? prev : current
Keep(prev, current) == IF prev.count > current.count THEN prev ELSE current

\* activeUsers.reduce(...) without an initial value: the accumulator starts
\* at the first element and the callback runs from the second
RECURSIVE Reduce(_, _, _)
Reduce(au, i, prev) ==
    IF i > Len(au) THEN prev ELSE Reduce(au, i + 1, Keep(prev, au[i]))

\* a baseline that moves on with every play logged
baseline_Rotating(au) == au[((Len(playlist_history) \div 2) % Len(au)) + 1].emotion

baseline(au) == Reduce(au, 2, au[1]).emotion

distance(hist, e) ==
    LET lastIndex == IndexOf(hist, e)
    IN  IF lastIndex = -1 THEN NEVER_PLAYED ELSE lastIndex

\* a score that forgets the size of the group
score_DistanceOnly(hist, group) == distance(hist, group.emotion)

score(hist, group) == distance(hist, group.emotion) * group.count

\* if (score > maxScore)
Beats(s, maxScore) == s > maxScore

\* activeUsers.forEach(group => { ... })
RECURSIVE ForEach(_, _, _, _, _)
ForEach(au, hist, i, best, maxScore) ==
    IF i > Len(au) THEN best
    ELSE IF Beats(score(hist, au[i]), maxScore)
         THEN ForEach(au, hist, i + 1, au[i].emotion, score(hist, au[i]))
         ELSE ForEach(au, hist, i + 1, best, maxScore)

bestFairnessEmotion(au, hist) ==
    ForEach(au, hist, 1, au[1].emotion, INITIAL_MAX_SCORE)

---------------------------------------------------------------------------
(* The handlers *)

Row(u, e, t) == [user_id |-> u, emotion |-> e, timestamp |-> t]

Play(st, e, t) == [system_type |-> st, emotion |-> e, timestamp |-> t]

\* an update without its WHERE clause
Update_EveryRow(ue, userId, emotion, t) ==
    [i \in 1 .. Len(ue) |-> Row(ue[i].user_id, emotion, t)]

\* an update that sets the emotion and keeps the timestamp of the first vote
Update_KeepTimestamp(ue, userId, emotion, t) ==
    [i \in 1 .. Len(ue) |->
        IF ue[i].user_id = userId THEN Row(userId, emotion, ue[i].timestamp) ELSE ue[i]]

\* UPDATE user_emotions SET emotion = ?, timestamp = CURRENT_TIMESTAMP WHERE user_id = ?
Update(ue, userId, emotion, t) ==
    [i \in 1 .. Len(ue) |->
        IF ue[i].user_id = userId THEN Row(userId, emotion, t) ELSE ue[i]]

\* INSERT INTO user_emotions (user_id, emotion) VALUES (?, ?)
Insert(ue, userId, emotion, t) == Append(ue, Row(userId, emotion, t))

\* a submission that always inserts
Upsert_InsertOnly(ue, userId, emotion, t) == Insert(ue, userId, emotion, t)

\* the update-or-insert of POST /api/emotions
Upsert(ue, userId, emotion, t) ==
    IF \E i \in 1 .. Len(ue) : ue[i].user_id = userId
    THEN Update(ue, userId, emotion, t)
    ELSE Insert(ue, userId, emotion, t)

\* a log that records the fairness play only
LogPlay_FairnessOnly(ph, b, f, t1, t2) == Append(ph, Play("fairness", f, t2))

\* a log that records the baseline play only
LogPlay_BaselineOnly(ph, b, f, t1, t2) == Append(ph, Play("baseline", b, t1))

\* a log that holds the latest play only
LogPlay_LatestOnly(ph, b, f, t1, t2) == <<Play("baseline", b, t1), Play("fairness", f, t2)>>

\* the two INSERTs of GET /api/playlist/next, each with its own CURRENT_TIMESTAMP
LogPlay(ph, b, f, t1, t2) ==
    Append(Append(ph, Play("baseline", b, t1)), Play("fairness", f, t2))

\* app.post("/api/emotions")
PostEmotions(userId, emotion) ==
    /\ IF ~Includes(EMOTIONS, emotion)
       THEN /\ res' = [op |-> "POST /api/emotions", at |-> now, status |-> 400,
                       body |-> [error |-> "Invalid emotion"]]
            /\ UNCHANGED user_emotions
       ELSE /\ user_emotions' = Upsert(user_emotions, userId, emotion, now)
            /\ res' = [op |-> "POST /api/emotions", at |-> now, status |-> 200,
                       body |-> [success |-> TRUE]]
    /\ UNCHANGED <<playlist_history, now>>

\* a summary read that deletes the expired votes it leaves out
GetSummary_Purging ==
    /\ \E summary \in SummaryRows(user_emotions, now) :
          res' = [op |-> "GET /api/emotions/summary", at |-> now, status |-> 200,
                  body |-> summary]
    /\ user_emotions' = SelectSeq(user_emotions, LAMBDA row : IsActive(row, now))
    /\ UNCHANGED <<playlist_history, now>>

\* app.get("/api/emotions/summary")
GetSummary ==
    /\ \E summary \in SummaryRows(user_emotions, now) :
          res' = [op |-> "GET /api/emotions/summary", at |-> now, status |-> 200,
                  body |-> summary]
    /\ UNCHANGED <<user_emotions, playlist_history, now>>

\* the instants of the two INSERTs of a handler that starts at t: the clock
\* may pass to the next second before either
InsertTimes(t) ==
    {<<t1, t2>> \in TimePoints \X TimePoints : t <= t1 /\ t1 <= t2 /\ t2 <= t + 1}

\* app.get("/api/playlist/next"); maxRows caps the growth of playlist_history
PlaylistNext(maxRows) ==
    \E activeUsers \in SummaryRows(user_emotions, now) :
        IF Len(activeUsers) = 0
        THEN /\ res' = [op |-> "GET /api/playlist/next", at |-> now, status |-> 200,
                        body |-> [baseline |-> "null", fairness |-> "null"],
                        activeUsers |-> activeUsers, history |-> <<>>]
             /\ UNCHANGED <<user_emotions, playlist_history, now>>
        ELSE \E history \in HistoryRows(playlist_history),
                tt \in InsertTimes(now) :
                LET b == baseline(activeUsers)
                    f == bestFairnessEmotion(activeUsers, history)
                IN  /\ Len(playlist_history) < maxRows
                    /\ playlist_history' = LogPlay(playlist_history, b, f, tt[1], tt[2])
                    /\ now' = tt[2]
                    /\ res' = [op |-> "GET /api/playlist/next", at |-> now, status |-> 200,
                               body |-> [baseline |-> b, fairness |-> f],
                               activeUsers |-> activeUsers, history |-> history]
                    /\ UNCHANGED user_emotions

\* SELECT * FROM playlist_history ORDER BY timestamp DESC LIMIT 100
StatsRows(ph) == {Take(s, STATS_LIMIT) : s \in OrderByTimestampDesc(ph)}

\* app.get("/api/stats")
GetStats ==
    /\ \E history \in StatsRows(playlist_history),
          currentEmotions \in SummaryRows(user_emotions, now) :
          res' = [op |-> "GET /api/stats", at |-> now, status |-> 200,
                  body |-> [history |-> history, currentEmotions |-> currentEmotions]]
    /\ UNCHANGED <<user_emotions, playlist_history, now>>

\* fetchData of the dashboard (App.tsx): GET /api/emotions/summary and GET /api/stats, handled one
\* after the other, then setSummary and setHistory; res holds the two states
fetchData ==
    /\ \E summaryData \in SummaryRows(user_emotions, now),
          history \in StatsRows(playlist_history) :
          res' = [op |-> "fetchData", at |-> now, status |-> 200,
                  body |-> [summary |-> summaryData, history |-> history]]
    /\ UNCHANGED <<user_emotions, playlist_history, now>>

\* a reset that clears the votes and keeps the log
Reset_VotesOnly ==
    /\ user_emotions' = <<>>
    /\ res' = [op |-> "POST /api/reset", at |-> now, status |-> 200,
               body |-> [success |-> TRUE]]
    /\ UNCHANGED <<playlist_history, now>>

\* app.post("/api/reset")
Reset ==
    /\ user_emotions' = <<>>
    /\ playlist_history' = <<>>
    /\ res' = [op |-> "POST /api/reset", at |-> now, status |-> 200,
               body |-> [success |-> TRUE]]
    /\ UNCHANGED now

\* time passes between requests
Tick ==
    /\ \E t \in TimePoints : t > now /\ now' = t
    /\ UNCHANGED <<user_emotions, playlist_history, res>>

\* db.exec(CREATE TABLE IF NOT EXISTS ...) on a fresh emotions.db
Init ==
    /\ user_emotions = <<>>
    /\ playlist_history = <<>>
    /\ now = 0
    /\ res = [op |-> "none", at |-> now, status |-> 0, body |-> <<>>]

Next ==
    \/ \E userId \in UserIds, emotion \in EmotionInputs : PostEmotions(userId, emotion)
    \/ GetSummary
    \/ PlaylistNext(2 * MaxPlays)
    \/ Reset
    \/ Tick

Spec == Init /\ [][Next]_vars

---------------------------------------------------------------------------
(* A burst of requests: everything arrives within the first two seconds,   *)
(* so that several selection requests fall into one second.                *)

\* selection requests of the burst that append to playlist_history
MaxBurst == 3

NextBurst ==
    \/ \E userId \in UserIds, emotion \in EmotionInputs : PostEmotions(userId, emotion)
    \/ PlaylistNext(2 * MaxBurst)
    \/ Reset
    \/ (Tick /\ now' <= 1)

SpecBurst == Init /\ [][NextBurst]_vars

\* The handlers with the reads of GET /api/stats and of the dashboard among
\* them, for selection requests that come at least a second after the last
\* logged play, until the votes of second 0 expire.
NextStats ==
    \/ \E userId \in UserIds, emotion \in EmotionInputs : PostEmotions(userId, emotion)
    \/ GetSummary
    \/ /\ \A k \in 1 .. Len(playlist_history) : playlist_history[k].timestamp < now
       /\ PlaylistNext(2 * (MaxPlays + 1))
    \/ GetStats
    \/ fetchData
    \/ Reset
    \/ (Tick /\ now' <= WINDOW)

SpecStats == Init /\ [][NextStats]_vars

---------------------------------------------------------------------------
(* A server started on an emotions.db that earlier runs have filled.       *)
(* new Database("emotions.db") with CREATE TABLE IF NOT EXISTS keeps the   *)
(* rows of the file, so the tables start with what the handlers wrote      *)
(* before: votes of several users, and a long playlist_history.            *)

\* votes in the file
MaxVoters == 3

\* plays of one emotion in a row in the file (beyond HISTORY_LIMIT)
MaxRun == 21

VoterIds == <<"v1", "v2", "v3", "v4", "v5", "v6", "v7", "v8">>

RECURSIVE Sum(_, _)
Sum(c, n) == IF n = 0 THEN 0 ELSE c[n] + Sum(c, n - 1)

\* votes per emotion, by its index in EMOTIONS: every split of at most
\* MaxVoters votes, and the split 5 x Happy, 2 x Calm
VoteCounts ==
    {c \in [1 .. Len(EMOTIONS) -> 0 .. MaxVoters] : Sum(c, Len(EMOTIONS)) <= MaxVoters}
        \cup {[k \in 1 .. Len(EMOTIONS) |-> IF k = 1 THEN 5 ELSE IF k = 2 THEN 2 ELSE 0]}

\* the rows of c[k] users voting EMOTIONS[k] at t, through POST /api/emotions
RECURSIVE VotesOf(_, _, _)
VotesOf(c, k, t) ==
    IF k = 0 THEN <<>>
    ELSE LET before == VotesOf(c, k - 1, t)
         IN  before \o [n \in 1 .. c[k] |-> Row(VoterIds[Len(before) + n], EMOTIONS[k], t)]

\* the rows of i plays of a and then j plays of b, with one voter at a time
\* (both strategies then select that voter's emotion), one play a second,
\* or with the last two plays in the same second (told apart by a query
\* only when they are of two emotions)
RECURSIVE PlaysOf(_, _, _, _, _, _)
PlaysOf(a, i, b, j, tie, k) ==
    IF k = 0 THEN <<>>
    ELSE LET e == IF k <= i THEN a ELSE b
             t == IF tie /\ k = i + j THEN k - 1 ELSE k
         IN  LogPlay(PlaysOf(a, i, b, j, tie, k - 1), e, e, t, t)

InitHist ==
    /\ now = WINDOW
    /\ \E c \in VoteCounts : user_emotions = VotesOf(c, Len(EMOTIONS), now)
    /\ \E a \in Range(EMOTIONS), b \in Range(EMOTIONS),
          i \in {0, 1}, j \in 0 .. MaxRun, tie \in BOOLEAN :
            /\ tie => (i = 1 /\ j = 1)
            /\ playlist_history = PlaysOf(a, i, b, j, tie, i + j)
    /\ res = [op |-> "none", at |-> now, status |-> 0, body |-> <<>>]

\* the first selection request after the start
NextHist == res.op = "none" /\ PlaylistNext(Len(playlist_history) + 2)

SpecHist == InitHist /\ [][NextHist]_vars

---------------------------------------------------------------------------
(* Selection requests without end over votes that stay as they are.  Every
   voter repeats the vote each second, so that no vote expires, and one
   selection request is handled each second, within that second.  Roll is
   the passing of the second, seen from the new second: every timestamp is
   counted from the new now, and the log keeps its last HISTORY_LIMIT
   fairness rows, the only rows a later selection request reads. *)

\* votes of the smallest of four large groups, next to a single vote
Crowd == 34

LiveVoterId(n) == "v" \o ToString(n)

\* the rows of c[k] users voting EMOTIONS[k] at t, through POST /api/emotions
RECURSIVE LiveVotesOf(_, _, _)
LiveVotesOf(c, k, t) ==
    IF k = 0 THEN <<>>
    ELSE LET before == LiveVotesOf(c, k - 1, t)
         IN  before \o [n \in 1 .. c[k] |-> Row(LiveVoterId(Len(before) + n), EMOTIONS[k], t)]

\* the splits of VoteCounts with a vote in them, and groups of Crowd + 3,
\* Crowd + 2, Crowd + 1 and Crowd votes with one vote for the fifth emotion
LiveCounts ==
    {c \in VoteCounts : Sum(c, Len(EMOTIONS)) >= 1}
        \cup {[k \in 1 .. Len(EMOTIONS) |->
                  IF k < Len(EMOTIONS) THEN Crowd + Len(EMOTIONS) - 1 - k ELSE 1]}

InitLive ==
    /\ now = 0
    /\ \E c \in LiveCounts : user_emotions = LiveVotesOf(c, Len(EMOTIONS), now)
    /\ playlist_history = <<>>
    /\ res = [op |-> "none", at |-> now, status |-> 0, body |-> <<>>]

\* the next second begins: the votes are repeated, the last HISTORY_LIMIT
\* fairness rows are kept, and time is counted from the new now
Roll ==
    LET fair == SelectSeq(playlist_history, LAMBDA r : r.system_type = "fairness")
        n == Len(fair)
        from == IF n > HISTORY_LIMIT THEN n - HISTORY_LIMIT + 1 ELSE 1
        kept == SubSeq(fair, from, n)
    IN  /\ playlist_history' =
               [k \in 1 .. Len(kept) |->
                   Play(kept[k].system_type, kept[k].emotion, kept[k].timestamp - (now + 1))]
        /\ user_emotions' =
               [k \in 1 .. Len(user_emotions) |->
                   Row(user_emotions[k].user_id, user_emotions[k].emotion, 0)]
        /\ now' = 0
        /\ res' = [op |-> "none", at |-> 0, status |-> 0, body |-> <<>>]

NextLive ==
    \/ res.op = "none" /\ PlaylistNext(HISTORY_LIMIT + 2) /\ now' = now
    \/ res.op # "none" /\ Roll

\* a step in which a selection request is answered
Answered == res.op = "none" /\ res'.op = "GET /api/playlist/next"

\* every second passes, and selection requests keep coming
SpecLive ==
    /\ InitLive
    /\ [][NextLive]_vars
    /\ WF_vars(res.op # "none" /\ Roll)
    /\ []<><<Answered>>_vars

---------------------------------------------------------------------------
(* The dashboard (App.tsx): fetchData and the metrics computed from what it
   stores.  A percentage is kept as the fraction in lowest terms that the
   division yields, <<numerator, denominator>>. *)

\* hist.slice(0, 10)
RECENT_PLAYS == 10

RECURSIVE GCD(_, _)
GCD(a, b) == IF b = 0 THEN a ELSE GCD(b, a % b)

\* the number n / d
Frac(n, d) == LET g == GCD(n, d) IN <<n \div g, d \div g>>

\* history.filter(h => h.system_type === st)
Filter(history, st) == SelectSeq(history, LAMBDA h : h.system_type = st)

\* calculateSatisfaction, with the summary it closes over
calculateSatisfaction(hist, summary) ==
    IF Len(hist) = 0 THEN Frac(0, 1)
    ELSE LET requestedEmotions == {summary[k].emotion : k \in 1 .. Len(summary)}
         IN  IF Cardinality(requestedEmotions) = 0 THEN Frac(100, 1)
             ELSE LET slice == Take(hist, RECENT_PLAYS)
                      playedEmotions == {slice[k].emotion : k \in 1 .. Len(slice)}
                      covered == Cardinality({e \in requestedEmotions : e \in playedEmotions})
                  IN  Frac(covered * 100, Cardinality(requestedEmotions))

\* the value of metrics when there is no history
NullMetrics == [null |-> TRUE]

\* useMemo(() => ..., [history, summary])
metrics(history, summary) ==
    IF Len(history) = 0 THEN NullMetrics
    ELSE [baselineSatisfaction |-> calculateSatisfaction(Filter(history, "baseline"), summary),
          fairnessSatisfaction |-> calculateSatisfaction(Filter(history, "fairness"), summary)]

\* the rows of i plays of a and then j plays of b, one play every two
\* seconds, the second INSERT of each in the second after the first
RECURSIVE PlaysApart(_, _, _, _, _)
PlaysApart(a, i, b, j, k) ==
    IF k = 0 THEN <<>>
    ELSE LET e == IF k <= i THEN a ELSE b
         IN  LogPlay(PlaysApart(a, i, b, j, k - 1), e, e, 2 * k - 1, 2 * k)

\* the dashboard opened on a database filled by earlier runs: the votes of
\* InitHist, and a log of plays two seconds apart or of at most two plays
\* with both rows of a play in one second
InitClient ==
    /\ now = WINDOW
    /\ \E c \in VoteCounts : user_emotions = VotesOf(c, Len(EMOTIONS), now)
    /\ \E a \in Range(EMOTIONS), b \in Range(EMOTIONS),
          i \in {0, 1}, j \in 0 .. MaxRun, tie \in BOOLEAN :
            playlist_history = IF i + j <= 2
                               THEN PlaysOf(a, i, b, j, tie /\ i = 1 /\ j = 1, i + j)
                               ELSE PlaysApart(a, i, b, j, i + j)
    /\ res = [op |-> "none", at |-> now, status |-> 0, body |-> <<>>]

\* the first fetch
NextClient == res.op = "none" /\ fetchData

SpecClient == InitClient /\ [][NextClient]_vars

---------------------------------------------------------------------------
(* Vocabulary of the properties *)

NoSelection == [baseline |-> "null", fairness |-> "null"]

IsSummary == res.op = "GET /api/emotions/summary" /\ res.at = now

\* a selection request that found votes and logged a play
IsPlay == res.op = "GET /api/playlist/next" /\ res.body # NoSelection

\* the count a GROUP BY result reports for emotion e (0 when it has no row for e)
Reported(rows, e) ==
    IF \E k \in 1 .. Len(rows) : rows[k].emotion = e
    THEN rows[CHOOSE k \in 1 .. Len(rows) : rows[k].emotion = e].count
    ELSE 0

\* a GROUP BY result has one row per emotion and no row of count 0
WellFormed(rows) ==
    /\ \A k, l \in 1 .. Len(rows) : rows[k].emotion = rows[l].emotion => k = l
    /\ \A k \in 1 .. Len(rows) : rows[k].count > 0

\* the participants whose stored vote is e and is younger than the window at t
FreshVoters(e, t) ==
    {u \in {user_emotions[i].user_id : i \in 1 .. Len(user_emotions)} :
        \E i \in 1 .. Len(user_emotions) :
            /\ user_emotions[i].user_id = u
            /\ user_emotions[i].emotion = e
            /\ user_emotions[i].timestamp > t - WINDOW}

\* the stored votes for e that are younger than the window at t
FreshVotes(e, t) ==
    {i \in 1 .. Len(user_emotions) :
        user_emotions[i].emotion = e /\ user_emotions[i].timestamp > t - WINDOW}

---------------------------------------------------------------------------
(* C1 *)

C1_OneRowPerUser ==
    \A i, j \in 1 .. Len(user_emotions) :
        user_emotions[i].user_id = user_emotions[j].user_id => i = j

C1_SubmitOverwrites ==
    \A u \in UserIds, e \in EmotionInputs :
        (e \in Range(EMOTIONS) /\ PostEmotions(u, e)) =>
            /\ Cardinality({i \in 1 .. Len(user_emotions') : user_emotions'[i].user_id = u}) = 1
            /\ \A i \in 1 .. Len(user_emotions') :
                  user_emotions'[i].user_id = u => user_emotions'[i].emotion = e

C1_CountsParticipants ==
    IsSummary =>
        /\ WellFormed(res.body)
        /\ \A e \in Range(EMOTIONS) :
              Reported(res.body, e) = Cardinality(FreshVoters(e, now))

\* C1: the store holds at most one vote per participant, a valid submission
\* leaves that participant with exactly one vote, carrying the emotion just
\* submitted, and the distribution counts each participant with a fresh vote
\* once, under that emotion.
C1_OneVotePerParticipant ==
    /\ []C1_OneRowPerUser
    /\ [][C1_SubmitOverwrites]_vars
    /\ []C1_CountsParticipants

\* both participants have voted, the first one again after the second, and
\* the distribution has been read
C1_Witness ==
    /\ IsSummary
    /\ Len(user_emotions) = 2
    /\ user_emotions[1].timestamp > user_emotions[2].timestamp
    /\ user_emotions[1].timestamp > now - WINDOW
    /\ Len(res.body) >= 1

---------------------------------------------------------------------------
(* C2 *)

\* C2: a submission whose emotion is outside EMOTIONS is answered 400
\* "Invalid emotion" and changes neither table.
C2_InvalidEmotionRejected ==
    [][\A u \in UserIds, e \in EmotionInputs :
          (e \notin Range(EMOTIONS) /\ PostEmotions(u, e)) =>
              /\ res'.status = 400
              /\ res'.body = [error |-> "Invalid emotion"]
              /\ user_emotions' = user_emotions
              /\ playlist_history' = playlist_history]_vars

\* an invalid submission has been refused while both tables hold rows
C2_Witness ==
    /\ res.op = "POST /api/emotions"
    /\ res.status = 400
    /\ Len(user_emotions) >= 1
    /\ Len(playlist_history) >= 2

---------------------------------------------------------------------------
(* C3 *)

\* C3: the distribution read at now counts exactly the stored votes with
\* timestamp > now - WINDOW: a vote aged exactly WINDOW is left out.
C3_WindowIsOpenAtTheEdge ==
    IsSummary =>
        /\ WellFormed(res.body)
        /\ \A e \in Range(EMOTIONS) :
              Reported(res.body, e) = Cardinality(FreshVotes(e, now))

\* one vote aged exactly WINDOW and one a second younger are stored, and the
\* distribution read holds the younger one only
C3_Witness ==
    /\ IsSummary
    /\ \E i, j \in 1 .. Len(user_emotions) :
          /\ user_emotions[i].timestamp = now - WINDOW
          /\ user_emotions[j].timestamp = now - WINDOW + 1
          /\ user_emotions[i].emotion # user_emotions[j].emotion
          /\ res.body = <<[emotion |-> user_emotions[j].emotion, count |-> 1]>>

---------------------------------------------------------------------------
(* C4 *)

\* C4: a selection request made when no stored vote is younger than the
\* window answers null for both strategies and changes neither table.
C4_EmptyDistributionIsNoOp ==
    [][(/\ PlaylistNext(2 * MaxPlays)
        /\ \A i \in 1 .. Len(user_emotions) :
              user_emotions[i].timestamp <= now - WINDOW) =>
            /\ res'.body = NoSelection
            /\ playlist_history' = playlist_history
            /\ user_emotions' = user_emotions]_vars

\* a selection request has answered null although votes are stored (all of
\* them expired) and plays are logged
C4_Witness ==
    /\ res.op = "GET /api/playlist/next"
    /\ res.body = NoSelection
    /\ Len(user_emotions) >= 1
    /\ Len(playlist_history) >= 2

---------------------------------------------------------------------------
(* C5 *)

\* C5: a selection request made when some stored vote is younger than the
\* window appends exactly two rows, a baseline row and then a fairness row,
\* with the emotions it answers, and leaves the earlier rows as they were.
C5_TwoRowsPerPlay ==
    [][(/\ PlaylistNext(2 * MaxBurst)
        /\ \E i \in 1 .. Len(user_emotions) :
              user_emotions[i].timestamp > now - WINDOW) =>
            LET n == Len(playlist_history)
            IN  /\ Len(playlist_history') = n + 2
                /\ SubSeq(playlist_history', 1, n) = playlist_history
                /\ playlist_history'[n + 1].system_type = "baseline"
                /\ playlist_history'[n + 1].emotion = res'.body.baseline
                /\ playlist_history'[n + 2].system_type = "fairness"
                /\ playlist_history'[n + 2].emotion = res'.body.fairness
                /\ res'.body.baseline \in Range(EMOTIONS)
                /\ res'.body.fairness \in Range(EMOTIONS)]_vars

\* two plays have been logged and every vote is older than the first of them
C5_Witness ==
    /\ IsPlay
    /\ Len(playlist_history) = 4
    /\ \A i \in 1 .. Len(user_emotions) :
          user_emotions[i].timestamp < playlist_history[1].timestamp

---------------------------------------------------------------------------
(* Vocabulary of the selection properties.  After a play, res.activeUsers  *)
(* is the distribution in the order the handler iterated it, and the last  *)
(* two rows of playlist_history are the ones the play appended.            *)

\* the largest count of a distribution
Largest(au) == CHOOSE c \in {au[k].count : k \in 1 .. Len(au)} :
                  \A k \in 1 .. Len(au) : au[k].count <= c

\* the positions of a distribution that hold the largest count
Leaders(au) == {k \in 1 .. Len(au) : au[k].count = Largest(au)}

First(K) == CHOOSE k \in K : \A l \in K : k <= l

Last(K) == CHOOSE k \in K : \A l \in K : l <= k

---------------------------------------------------------------------------
(* C6 *)

\* C6: the baseline emotion of a play has at least as many fresh votes as
\* every emotion.
C6_BaselineIsALargestGroup ==
    IsPlay =>
        \A e \in Range(EMOTIONS) :
            Cardinality(FreshVotes(res.body.baseline, res.at))
                >= Cardinality(FreshVotes(e, res.at))

\* a play over two groups of different sizes, the larger iterated first
C6_Witness ==
    /\ IsPlay
    /\ Len(res.activeUsers) = 2
    /\ res.activeUsers[1].count > res.activeUsers[2].count
    /\ res.body.baseline = res.activeUsers[1].emotion

---------------------------------------------------------------------------
(* C7 *)

\* C7, as claimed: among the groups that share the largest count, the
\* baseline is the first in iteration order.
C7_FirstLeaderIsKept ==
    IsPlay => res.body.baseline = res.activeUsers[First(Leaders(res.activeUsers))].emotion

\* C7, amended: among the groups that share the largest count, the baseline
\* is the last in iteration order.
C7_LastLeaderIsKept ==
    IsPlay => res.body.baseline = res.activeUsers[Last(Leaders(res.activeUsers))].emotion

\* a play over a distribution in which three groups share the largest count
C7_Witness ==
    /\ IsPlay
    /\ Cardinality(Leaders(res.activeUsers)) = 3

---------------------------------------------------------------------------
(* C8, C9 *)

\* playlist_history as the last play found it
Before == SubSeq(playlist_history, 1, Len(playlist_history) - 2)

\* the emotions of the fairness rows the last play found, the most recently
\* appended first, at most HISTORY_LIMIT of them
Recent ==
    LET fair == SelectSeq(Before, LAMBDA r : r.system_type = "fairness")
        n    == IF Len(fair) < HISTORY_LIMIT THEN Len(fair) ELSE HISTORY_LIMIT
    IN  [k \in 1 .. n |-> fair[Len(fair) + 1 - k].emotion]

\* the number of entries of list before the first e, NEVER_PLAYED when e is
\* not in list
Gap(list, e) ==
    IF \E k \in 1 .. Len(list) : list[k] = e
    THEN Cardinality({k \in 1 .. Len(list) : \A l \in 1 .. k : list[l] # e})
    ELSE NEVER_PLAYED

\* the first position of au with the largest Gap x count over list
FirstTopScore(au, list) ==
    First({k \in 1 .. Len(au) :
             \A l \in 1 .. Len(au) :
                 Gap(list, au[l].emotion) * au[l].count
                     <= Gap(list, au[k].emotion) * au[k].count})

\* C8: the fairness emotion of a play is the first emotion in iteration
\* order with the largest score distance x count, the distance being the
\* position of the emotion among the HISTORY_LIMIT most recent fairness
\* plays, most recent first, and NEVER_PLAYED when it is not among them.
C8_FairnessIsFirstTopScore ==
    IsPlay =>
        res.body.fairness
            = res.activeUsers[FirstTopScore(res.activeUsers, Recent)].emotion

\* the same with the distance taken in the rows as the query returned them
C8_FirstTopScoreOfRowsRead ==
    IsPlay =>
        res.body.fairness
            = res.activeUsers[FirstTopScore(res.activeUsers, res.history)].emotion

\* C9: the distance a play uses for each emotion of the distribution is the
\* number of fairness plays logged after the last fairness play of that
\* emotion, among the HISTORY_LIMIT most recently logged.
C9_DistanceCountsPlaysSince ==
    IsPlay =>
        \A k \in 1 .. Len(res.activeUsers) :
            distance(res.history, res.activeUsers[k].emotion)
                = Gap(Recent, res.activeUsers[k].emotion)

\* what holds of C9: the same, for a play that finds no two fairness rows
\* of one timestamp
C9_PlaysSinceAcrossSeconds ==
    LET fair == SelectSeq(Before, LAMBDA r : r.system_type = "fairness")
    IN  (/\ IsPlay
         /\ \A k, l \in 1 .. Len(fair) : fair[k].timestamp = fair[l].timestamp => k = l) =>
            \A k \in 1 .. Len(res.activeUsers) :
                distance(res.history, res.activeUsers[k].emotion)
                    = Gap(Recent, res.activeUsers[k].emotion)

---------------------------------------------------------------------------
(* C10 *)

\* C10: a play that finds no fairness row selects, for the fairness
\* strategy, an emotion with the largest number of fresh votes, and the
\* baseline emotion when only one emotion has that number.
C10_EmptyHistoryFollowsMajority ==
    (IsPlay /\ Len(playlist_history) = 2) =>
        /\ \A e \in Range(EMOTIONS) :
              Cardinality(FreshVotes(res.body.fairness, res.at))
                  >= Cardinality(FreshVotes(e, res.at))
        /\ Cardinality(Leaders(res.activeUsers)) = 1 =>
              res.body.fairness = res.body.baseline

\* 5 x Happy and 2 x Calm, no play logged before, Calm iterated first:
\* both strategies answer Happy
C10_Witness ==
    /\ IsPlay
    /\ Len(playlist_history) = 2
    /\ Cardinality(FreshVotes("Happy", res.at)) = 5
    /\ Cardinality(FreshVotes("Calm", res.at)) = 2
    /\ res.activeUsers[1].emotion = "Calm"
    /\ res.body = [baseline |-> "Happy", fairness |-> "Happy"]

---------------------------------------------------------------------------
(* C11 *)

\* the fairness rows the last play found, in the order they were logged
FairBefore == SelectSeq(Before, LAMBDA r : r.system_type = "fairness")

\* the last play found several emotions, one of them with more votes than
\* every other, and that one is the emotion of the fairness row logged last
LeaderJustPlayed ==
    /\ IsPlay
    /\ Len(res.activeUsers) >= 2
    /\ Cardinality(Leaders(res.activeUsers)) = 1
    /\ Len(FairBefore) >= 1
    /\ FairBefore[Len(FairBefore)].emotion
          = res.activeUsers[First(Leaders(res.activeUsers))].emotion

\* C11: when the emotion with strictly the most votes is the one the
\* fairness strategy selected last and another emotion has votes, the play
\* answers a fairness emotion that is not the baseline emotion.
C11_LeaderJustPlayedIsPassedOver ==
    LeaderJustPlayed => res.body.fairness # res.body.baseline

\* what holds of C11: the same, for a play that finds no two fairness rows
\* of one timestamp
C11_PassedOverAcrossSeconds ==
    (/\ LeaderJustPlayed
     /\ \A k, l \in 1 .. Len(FairBefore) :
           FairBefore[k].timestamp = FairBefore[l].timestamp => k = l) =>
        res.body.fairness # res.body.baseline

---------------------------------------------------------------------------
(* C13 *)

WasReset == res.op = "POST /api/reset"

\* C13: a reset leaves both tables empty, and the request that follows it
\* reads an empty distribution, answers null for both strategies without
\* logging, or reads an empty history.
C13_ResetClearsBothTables ==
    [][/\ Reset => (user_emotions' = <<>> /\ playlist_history' = <<>>)
       /\ (WasReset /\ GetSummary) => res'.body = <<>>
       /\ (WasReset /\ PlaylistNext(2 * (MaxPlays + 1))) =>
              (res'.body = NoSelection /\ playlist_history' = <<>>)
       /\ (WasReset /\ GetStats) =>
              (res'.body.history = <<>> /\ res'.body.currentEmotions = <<>>)]_vars

\* a reset has been answered after the window of the first votes has passed
C13_Witness ==
    /\ WasReset
    /\ user_emotions = <<>>
    /\ playlist_history = <<>>
    /\ now > 0

---------------------------------------------------------------------------
(* C18 *)

\* the two rows logged by the selection request that res records
LastPair == SubSeq(playlist_history, Len(playlist_history) - 1, Len(playlist_history))

\* C18: the baseline row and the fairness row logged by one selection request
\* carry the same timestamp, the time at which the request read the votes.
C18_PairSharesTimestamp ==
    IsPlay =>
        /\ LastPair[1].timestamp = LastPair[2].timestamp
        /\ LastPair[1].timestamp = res.at

\* what the two INSERTs do give: the baseline row is not older than the
\* request, the fairness row not older than the baseline row, and neither is
\* more than a second later than the request
C18_PairWithinOneSecond ==
    IsPlay =>
        /\ res.at <= LastPair[1].timestamp
        /\ LastPair[1].timestamp <= LastPair[2].timestamp
        /\ LastPair[2].timestamp <= res.at + 1

---------------------------------------------------------------------------
(* C19 *)

\* the rows logged before a step are, after it, where they were and as they were
HistoryKept ==
    /\ Len(playlist_history') >= Len(playlist_history)
    /\ SubSeq(playlist_history', 1, Len(playlist_history)) = playlist_history

\* C19: a step that removes, changes or moves a logged row is a reset, and
\* is no vote, selection request, summary read or stats read.
C19_HistoryIsAppendOnly ==
    [][\/ HistoryKept
       \/ /\ Reset
          /\ ~ \E userId \in UserIds, emotion \in EmotionInputs :
                  PostEmotions(userId, emotion)
          /\ ~ PlaylistNext(2 * (MaxPlays + 1))
          /\ ~ GetSummary
          /\ ~ GetStats]_vars

\* the log has been read after a second play, and a vote was submitted after
\* the first play
C19_Witness ==
    /\ res.op = "GET /api/stats"
    /\ Len(playlist_history) >= 4
    /\ Len(res.body.history) = Len(playlist_history)
    /\ \E k \in 1 .. Len(user_emotions) :
          user_emotions[k].timestamp > playlist_history[2].timestamp

---------------------------------------------------------------------------
(* C20 *)

HasVoted(u) == \E i \in 1 .. Len(user_emotions) : user_emotions[i].user_id = u

\* a vote of a user who has voted before, whatever the age of the stored
\* vote and whether or not the emotion is the stored one, is answered 200
\* and leaves the user's row with the new emotion and the time of the vote
C20_ResubmitRestamps ==
    \A u \in UserIds, e \in EmotionInputs :
        (e \in Range(EMOTIONS) /\ HasVoted(u) /\ PostEmotions(u, e)) =>
            /\ res'.status = 200
            /\ res'.body = [success |-> TRUE]
            /\ Len(user_emotions') = Len(user_emotions)
            /\ \A i \in 1 .. Len(user_emotions) :
                  user_emotions'[i] = IF user_emotions[i].user_id = u
                                      THEN Row(u, e, now)
                                      ELSE user_emotions[i]

\* a distribution read less than WINDOW after the last vote of a user counts
\* that user's emotion
C20_CountedUntilWindowEnds ==
    IsSummary =>
        \A i \in 1 .. Len(user_emotions) :
            (now - user_emotions[i].timestamp < WINDOW) =>
                \E k \in 1 .. Len(res.body) :
                    /\ res.body[k].emotion = user_emotions[i].emotion
                    /\ res.body[k].count >= 1

\* C20: a repeated vote, of the same or of another valid emotion, is answered
\* ok and restarts the window of that user: the user is counted in every
\* distribution read less than WINDOW after it.
C20_ResubmitRestartsWindow ==
    /\ [][C20_ResubmitRestamps]_vars
    /\ []C20_CountedUntilWindowEnds

\* the first user voted in the first seconds, voted again when that vote was
\* WINDOW old or a second short of it, and is counted a second later
C20_Witness ==
    /\ IsSummary
    /\ now = WINDOW + 1
    /\ Len(user_emotions) = 2
    /\ user_emotions[2].timestamp <= 1
    /\ user_emotions[1].timestamp = WINDOW
    /\ res.body = <<[emotion |-> user_emotions[1].emotion, count |-> 1]>>

---------------------------------------------------------------------------
(* C16 *)

RowsOf(rows, st) == SelectSeq(rows, LAMBDA r : r.system_type = st)

\* C16: between any two requests playlist_history holds as many baseline rows
\* as fairness rows, and so does the history a stats read returns.
C16_NoHalfLoggedPlay ==
    /\ Len(RowsOf(playlist_history, "baseline")) = Len(RowsOf(playlist_history, "fairness"))
    /\ res.op = "GET /api/stats" =>
          Len(RowsOf(res.body.history, "baseline"))
              = Len(RowsOf(res.body.history, "fairness"))

\* a stats read has returned two logged plays, a baseline row first
C16_Witness ==
    /\ res.op = "GET /api/stats"
    /\ res.at = now
    /\ Len(res.body.history) = 4
    /\ res.body.history[1].system_type = "baseline"

---------------------------------------------------------------------------
(* C17 *)

\* no user has two rows
C17_NoDoubleInsert ==
    \A u \in UserIds :
        Cardinality({i \in 1 .. Len(user_emotions) : user_emotions[i].user_id = u}) <= 1

\* a step that logs a play leaves the votes and the rows logged before as
\* they were when it read them, and the two rows it appends are the baseline
\* and the fairness selection of a reading of those votes and those rows
C17_PlayIsOfTheStoreItAppendsTo ==
    (playlist_history' # playlist_history /\ playlist_history' # <<>>) =>
        LET n == Len(playlist_history)
        IN  /\ user_emotions' = user_emotions
            /\ Len(playlist_history') = n + 2
            /\ SubSeq(playlist_history', 1, n) = playlist_history
            /\ \E au \in SummaryRows(user_emotions', now),
                  hist \in HistoryRows(SubSeq(playlist_history', 1, n)) :
                  /\ playlist_history'[n + 1].emotion = baseline(au)
                  /\ playlist_history'[n + 2].emotion = bestFairnessEmotion(au, hist)

\* C17: votes, selection requests and resets exclude one another: no user is
\* ever left with two rows, and the rows a selection request appends are
\* computed from the votes and the log as they are when it appends them.
C17_HandlersExcludeOneAnother ==
    /\ []C17_NoDoubleInsert
    /\ [][C17_PlayIsOfTheStoreItAppendsTo]_vars

\* three plays are logged, the first in second 0; the first user has voted
\* again in second 1, after the second user's vote
C17_Witness ==
    /\ IsPlay
    /\ Len(playlist_history) = 2 * MaxBurst
    /\ playlist_history[1].timestamp = 0
    /\ Len(user_emotions) = 2
    /\ user_emotions[1].timestamp = 1
    /\ user_emotions[2].timestamp = 0
    /\ user_emotions[1].emotion # user_emotions[2].emotion

---------------------------------------------------------------------------
(* C14, C15 *)

IsFetch == res.op = "fetchData"

\* the metrics of the summary and history the dashboard holds
Shown == metrics(res.body.history, res.body.summary)

\* R, the emotions of the distribution fetched
Requested == {res.body.summary[k].emotion : k \in 1 .. Len(res.body.summary)}

\* P, the emotions of the last RECENT_PLAYS rows logged for a strategy
Played(st) ==
    LET rows == SelectSeq(playlist_history, LAMBDA r : r.system_type = st)
        from == IF Len(rows) > RECENT_PLAYS THEN Len(rows) - RECENT_PLAYS + 1 ELSE 1
    IN  {rows[k].emotion : k \in from .. Len(rows)}

\* |R intersect P| / |R| x 100
Coverage(st) == Frac(Cardinality(Requested \cap Played(st)) * 100, Cardinality(Requested))

\* C14: with no emotion in the distribution fetched, both satisfactions are
\* 100, whatever the history fetched.
C14_EmptyDistributionScoresHundred ==
    (IsFetch /\ Requested = {}) =>
        Shown = [baselineSatisfaction |-> Frac(100, 1),
                 fairnessSatisfaction |-> Frac(100, 1)]

\* the same for a history fetched with a row in it
C14_ScoresHundredOnceAPlayIsLogged ==
    (IsFetch /\ Requested = {} /\ Len(res.body.history) > 0) =>
        Shown = [baselineSatisfaction |-> Frac(100, 1),
                 fairnessSatisfaction |-> Frac(100, 1)]

\* C15: with an emotion in the distribution fetched, the satisfaction of each
\* strategy is the share of the emotions of the distribution that are among
\* that strategy's last 10 logged plays, times 100: between 0 and 100.
C15_CoverageOfLastTen ==
    (IsFetch /\ Requested # {}) =>
        /\ Shown = [baselineSatisfaction |-> Coverage("baseline"),
                    fairnessSatisfaction |-> Coverage("fairness")]
        /\ \A v \in {Shown.baselineSatisfaction, Shown.fairnessSatisfaction} :
              0 <= v[1] /\ v[1] <= 100 * v[2]

\* the same for a history fetched with a row in it
C15_CoverageOnceAPlayIsLogged ==
    (IsFetch /\ Requested # {} /\ Len(res.body.history) > 0) =>
        /\ Shown = [baselineSatisfaction |-> Coverage("baseline"),
                    fairnessSatisfaction |-> Coverage("fairness")]
        /\ \A v \in {Shown.baselineSatisfaction, Shown.fairnessSatisfaction} :
              0 <= v[1] /\ v[1] <= 100 * v[2]

---------------------------------------------------------------------------
(* C12 *)

HasVotes(e) == \E k \in 1 .. Len(user_emotions) : user_emotions[k].emotion = e

FairnessPlays(e) == IsPlay /\ res.body.fairness = e

\* C12: with votes that stay as they are and selection requests that keep
\* coming, every emotion with a vote is at some time the fairness selection,
\* whatever the sizes of the groups.
C12_EveryGroupIsEventuallyPlayed ==
    \A e \in Range(EMOTIONS) : HasVotes(e) => <>FairnessPlays(e)

\* the same for the splits of at most MaxVoters votes and for 5 x Happy, 2 x Calm
C12_SmallGroupsAreEventuallyPlayed ==
    \A e \in Range(EMOTIONS) :
        (HasVotes(e) /\ Len(user_emotions) < Crowd) => <>FairnessPlays(e)

---------------------------------------------------------------------------
(* C21 *)

\* C21: a summary read, a stats read and the fetch of the dashboard, whose
\* metrics are a function of what was fetched, leave user_emotions and
\* playlist_history as they were.
C21_ReadsLeaveTheTablesAlone ==
    [][\/ (user_emotions' = user_emotions /\ playlist_history' = playlist_history)
       \/ ~(GetSummary \/ GetStats \/ fetchData)]_vars

\* the dashboard has fetched, and computed metrics, while an expired vote
\* and a logged play are stored
C21_Witness ==
    /\ res.op = "fetchData"
    /\ res.at = now
    /\ metrics(res.body.history, res.body.summary) # NullMetrics
    /\ Len(playlist_history) >= 2
    /\ \E k \in 1 .. Len(user_emotions) : ~IsActive(user_emotions[k], now)

---------------------------------------------------------------------------
(* C22 *)

\* the last play found several emotions with votes and a fairness row logged
\* by an earlier play
PlayAfterPlay ==
    /\ IsPlay
    /\ Len(res.activeUsers) >= 2
    /\ Len(FairBefore) >= 1

\* C22: a play that finds two or more emotions with votes never answers, as
\* its fairness emotion, the emotion of the fairness row logged last before it.
C22_NoImmediateRepeat ==
    PlayAfterPlay => res.body.fairness # FairBefore[Len(FairBefore)].emotion

\* what holds of C22: the same, for a play that finds no two fairness rows
\* of one timestamp
C22_NoRepeatAcrossSeconds ==
    (/\ PlayAfterPlay
     /\ \A k, l \in 1 .. Len(FairBefore) :
           FairBefore[k].timestamp = FairBefore[l].timestamp => k = l) =>
        res.body.fairness # FairBefore[Len(FairBefore)].emotion

---------------------------------------------------------------------------
(* C23 *)

\* e is one of EMOTIONS and a stored vote for it was fresh when the last
\* request was handled
VotedFor(e) == e \in Range(EMOTIONS) /\ FreshVotes(e, res.at) # {}

\* C23: the baseline and the fairness emotion of a play, which are the
\* emotions of the two rows it logs, are emotions of EMOTIONS with a fresh
\* vote at the time of the play.
C23_SelectedEmotionsHaveVotes ==
    IsPlay =>
        /\ VotedFor(res.body.baseline)
        /\ VotedFor(res.body.fairness)
        /\ LastPair[1].emotion = res.body.baseline
        /\ LastPair[2].emotion = res.body.fairness

\* a play has passed over an emotion that has an expired vote and an
\* earlier play in the log
C23_Witness ==
    /\ IsPlay
    /\ \E k \in 1 .. Len(user_emotions), l \in 1 .. Len(Before) :
          /\ ~IsActive(user_emotions[k], res.at)
          /\ Before[l].emotion = user_emotions[k].emotion
          /\ Before[l].system_type = "fairness"
          /\ res.body.fairness # user_emotions[k].emotion
          /\ res.body.baseline # user_emotions[k].emotion

---------------------------------------------------------------------------
(* C24 *)

\* a play follows a play and reads the same groups in the same order; the
\* log it reads holds the rows of the earlier play, which that play did not
SameGroupsReadAgain ==
    /\ IsPlay
    /\ IsPlay'
    /\ playlist_history' # playlist_history
    /\ res'.activeUsers = res.activeUsers

\* C24: a play that reads the groups the play before it read, in the same
\* order, answers the same baseline emotion, although the log has grown.
C24_BaselineIgnoresHistory ==
    [][SameGroupsReadAgain => res'.body.baseline = res.body.baseline]_vars

\* two plays over votes that are older than the first of them, for two
\* emotions: the fairness emotions differ and the baseline emotions do not
C24_Witness ==
    /\ IsPlay
    /\ Len(playlist_history) >= 4
    /\ Len(res.activeUsers) = 2
    /\ \A k \in 1 .. Len(user_emotions) :
          user_emotions[k].timestamp < playlist_history[1].timestamp
    /\ playlist_history[2].emotion # playlist_history[4].emotion
    /\ playlist_history[1].emotion = playlist_history[3].emotion

---------------------------------------------------------------------------
(* C25 *)

\* the rows of the users other than u are, after the step, where they were
\* and as they were, and a row that is new is a row of u
OnlyVoteOf(u) ==
    /\ Len(user_emotions') \in {Len(user_emotions), Len(user_emotions) + 1}
    /\ \A i \in 1 .. Len(user_emotions) :
          user_emotions[i].user_id # u => user_emotions'[i] = user_emotions[i]
    /\ \A i \in 1 .. Len(user_emotions') :
          i > Len(user_emotions) => user_emotions'[i].user_id = u

\* C25: an accepted vote of u leaves the rows of every other user and the
\* whole of playlist_history as they were, and a selection request leaves
\* user_emotions as it was.
C25_VoteTouchesOneRow ==
    [][/\ \A u \in UserIds, e \in EmotionInputs :
              (e \in Range(EMOTIONS) /\ PostEmotions(u, e)) =>
                  (OnlyVoteOf(u) /\ playlist_history' = playlist_history)
       /\ \/ user_emotions' = user_emotions
          \/ ~PlaylistNext(2 * MaxBurst)]_vars

\* the first user has voted again, after the second user's vote and after a
\* play, and the two rows hold different emotions
C25_Witness ==
    /\ res.op = "POST /api/emotions"
    /\ res.status = 200
    /\ res.at = now
    /\ Len(user_emotions) = 2
    /\ user_emotions[1].timestamp = now
    /\ user_emotions[2].timestamp < now
    /\ user_emotions[1].emotion # user_emotions[2].emotion
    /\ Len(playlist_history) >= 2

===========================================================================
